---------------------------- MODULE Spec2Model ----------------------------
(* Model of the fluent construct layer of storymock:                       *)
(*   src/src/faker/type.ts                 Construct (rules, setter)       *)
(*   src/src/faker/constructs/range.ts     RangeConstruct min/max/between  *)
(*   src/src/faker/constructs/even-odd.ts  EvenOddConstruct even/odd       *)
(* One RangeConstruct and one EvenOddConstruct are built over a setter     *)
(* that applies each callback to one accumulating constraint map.          *)
EXTENDS Integers, Sequences, FiniteSets, TLC

\* ------------------------------------------------------------------ bounds
\* Largest number used as a rule bound or as a call argument.
MaxVal == 2

Val == 0 .. MaxVal

\* ------------------------------------------------------- values and maps
\* Placeholder for "no number" in the call log (unused argument, no bound cited).
NoNum == 0 - 1

\* Object identities of the two builders, and the placeholder for "nothing
\* returned" (the call threw).
RangeId == "range"
EvenOddId == "evenOdd"
NoRet == "none"

\* A partial map with no key: `{}` in the source (rules ?? {}, constraints ?? {}).
EmptyMap == [k \in {} |-> NoNum]

\* Partial<{min: number; max: number}>: every map from a subset of {min, max}.
RangeMaps == UNION {[D -> Val] : D \in SUBSET {"min", "max"}}

\* Partial<{min; max; even}>: the accumulating constraint map.
ConstraintMaps ==
    {[k \in DOMAIN r \cup e |-> IF k = "even" THEN b ELSE r[k]] :
        r \in RangeMaps, e \in SUBSET {"even"}, b \in BOOLEAN}

\* --------------------------------------------------------------- state
VARIABLES
    rules,        \* RangeConstruct.rules, fixed by the constructor
    setter,       \* Construct.setter of both builders: the map it feeds
    constraints,  \* the accumulating constraint map behind the setter
    last,         \* log of the most recent call
    prev,         \* outcome and returned handle of the call before it
    lastArg       \* per key, the argument of the latest setter callback

vars == <<rules, setter, constraints, last, prev, lastArg>>

\* The setter every builder is constructed with: merge into the shared map.
SharedMap == "shared"

\* ------------------------------------------------------ execution frame
\* The receiver `this` plus what one call has done so far.
Frame(self, r, s, c) ==
    [self |-> self, rules |-> r, setter |-> s, constraints |-> c,
     thrown |-> FALSE, step |-> "none", bound |-> NoNum,
     writes |-> <<>>, ret |-> NoRet]

\* this.setter((constraints) => { constraints[key] = val })
ApplySetter(st, key, val) ==
    [st EXCEPT
        !.constraints = [k \in DOMAIN st.constraints \cup {key} |->
                            IF k = key THEN val ELSE st.constraints[k]],
        !.writes = Append(st.writes, key)]

\* throw new Error(`... ${bound}`) raised while running `step`
Throw(st, step, bound) ==
    [st EXCEPT !.thrown = TRUE, !.step = step, !.bound = bound, !.ret = NoRet]

\* Faulty variant: `return this` replaced by returning a fresh copy of the
\* builder.
ReturnClone(st) == [st EXCEPT !.ret = "clone"]

\* return this
ReturnThis(st) == [st EXCEPT !.ret = st.self]

\* ------------------------------------------------------- RangeConstruct
\* Faulty variants of the methods, used to show that the properties below
\* depend on the code as written.
\* min rejecting a value equal to the rule bound (`<=` for `<`).
minRejectsEqual(st, v) ==
    IF "min" \in DOMAIN st.rules /\ v <= st.rules["min"]
    THEN Throw(st, "min", st.rules["min"])
    ELSE ReturnThis(ApplySetter(st, "min", v))

\* min keeping the tighter of the stored and the new bound.
minKeepsTighter(st, v) ==
    IF "min" \in DOMAIN st.rules /\ v < st.rules["min"]
    THEN Throw(st, "min", st.rules["min"])
    ELSE ReturnThis(ApplySetter(st, "min",
            IF "min" \in DOMAIN st.constraints /\ st.constraints["min"] > v
            THEN st.constraints["min"] ELSE v))

\* min also checked against the max accumulated so far.
minChecksStoredMax(st, v) ==
    IF "min" \in DOMAIN st.rules /\ v < st.rules["min"]
    THEN Throw(st, "min", st.rules["min"])
    ELSE IF "max" \in DOMAIN st.constraints /\ v > st.constraints["max"]
         THEN Throw(st, "min", st.constraints["max"])
         ELSE ReturnThis(ApplySetter(st, "min", v))

\* max whose callback assigns constraints.min (copy-paste slip).
maxWritesMin(st, v) ==
    IF "max" \in DOMAIN st.rules /\ v > st.rules["max"]
    THEN Throw(st, "max", st.rules["max"])
    ELSE ReturnThis(ApplySetter(st, "min", v))

\* between running max before min.
betweenMaxFirst(st, a, b) ==
    LET s1 == IF "max" \in DOMAIN st.rules /\ b > st.rules["max"]
              THEN Throw(st, "max", st.rules["max"])
              ELSE ApplySetter(st, "max", b) IN
    IF s1.thrown THEN s1
    ELSE IF "min" \in DOMAIN st.rules /\ a < st.rules["min"]
         THEN Throw(s1, "min", st.rules["min"])
         ELSE ReturnThis(ApplySetter(s1, "min", a))

\* even toggling the stored flag instead of setting it.
evenToggles(st) ==
    ReturnThis(ApplySetter(st, "even",
        IF "even" \in DOMAIN st.constraints
        THEN ~st.constraints["even"] ELSE TRUE))

min(st, v) ==
    IF "min" \in DOMAIN st.rules /\ v < st.rules["min"]
    THEN Throw(st, "min", st.rules["min"])
    ELSE ReturnThis(ApplySetter(st, "min", v))

max(st, v) ==
    IF "max" \in DOMAIN st.rules /\ v > st.rules["max"]
    THEN Throw(st, "max", st.rules["max"])
    ELSE ReturnThis(ApplySetter(st, "max", v))

between(st, a, b) ==
    LET s1 == min(st, a) IN
    IF s1.thrown THEN s1
    ELSE LET s2 == max(s1, b) IN
         IF s2.thrown THEN s2 ELSE ReturnThis(s2)

\* ----------------------------------------------------- EvenOddConstruct
even(st) == ReturnThis(ApplySetter(st, "even", TRUE))

odd(st) == ReturnThis(ApplySetter(st, "even", FALSE))

\* ------------------------------------------------------------- actions
\* The frame a call on builder `self` starts from.
Enter(self) ==
    Frame(self, IF self = RangeId THEN rules ELSE EmptyMap, setter, constraints)

\* Commit the result `r` of the call `op(a, b)` made on builder `self`.
Commit(self, op, a, b, r) ==
    /\ constraints' = r.constraints
    /\ rules' = IF self = RangeId THEN r.rules ELSE rules
    /\ setter' = r.setter
    /\ last' = [op |-> op, a |-> a, b |-> b, recv |-> self,
                pre |-> constraints, thrown |-> r.thrown, step |-> r.step,
                bound |-> r.bound, writes |-> r.writes, ret |-> r.ret]
    /\ prev' = [called |-> last.op # "none", ok |-> ~last.thrown,
                recv |-> last.recv, ret |-> last.ret]
    /\ lastArg' = [k \in DOMAIN lastArg \cup
                         {r.writes[i] : i \in 1 .. Len(r.writes)} |->
                      IF \E i \in 1 .. Len(r.writes) : r.writes[i] = k
                      THEN IF k = "min" THEN a
                           ELSE IF k = "max"
                                THEN (IF op = "between" THEN b ELSE a)
                                ELSE op = "even"
                      ELSE lastArg[k]]

CallMin(v) == Commit(RangeId, "min", v, NoNum, min(Enter(RangeId), v))

CallMax(v) == Commit(RangeId, "max", v, NoNum, max(Enter(RangeId), v))

CallBetween(a, b) ==
    Commit(RangeId, "between", a, b, between(Enter(RangeId), a, b))

CallEven == Commit(EvenOddId, "even", NoNum, NoNum, even(Enter(EvenOddId)))

CallOdd == Commit(EvenOddId, "odd", NoNum, NoNum, odd(Enter(EvenOddId)))

NoCall ==
    [op |-> "none", a |-> NoNum, b |-> NoNum, recv |-> NoRet,
     pre |-> EmptyMap, thrown |-> FALSE, step |-> "none", bound |-> NoNum,
     writes |-> <<>>, ret |-> NoRet]

\* new RangeConstruct(setter, rules) / new EvenOddConstruct(setter) over an
\* empty constraint map.
Init ==
    /\ rules \in RangeMaps
    /\ setter = SharedMap
    /\ constraints = EmptyMap
    /\ last = NoCall
    /\ prev = [called |-> FALSE, ok |-> FALSE, recv |-> NoRet, ret |-> NoRet]
    /\ lastArg = EmptyMap

\* The same builders over a constraint map that already holds entries
\* (Module's constructor accepts any Partial<Constraints>).
InitAny ==
    /\ rules \in RangeMaps
    /\ setter = SharedMap
    /\ constraints \in ConstraintMaps
    /\ last = [NoCall EXCEPT !.pre = constraints]
    /\ prev = [called |-> FALSE, ok |-> FALSE, recv |-> NoRet, ret |-> NoRet]
    /\ lastArg = constraints

Next ==
    \/ \E v \in Val : CallMin(v)
    \/ \E v \in Val : CallMax(v)
    \/ \E a \in Val, b \in Val : CallBetween(a, b)
    \/ CallEven
    \/ CallOdd

Spec == Init /\ [][Next]_vars

SpecAny == InitAny /\ [][Next]_vars

\* ============================================================ properties
\* The frame the most recent call started from.
LastFrame == Frame(last.recv, rules, setter, last.pre)

\* The frame a call on the RangeConstruct would start from now.
NowFrame == Frame(RangeId, rules, setter, constraints)

\* What a holder of the builder handle `h` sees as its constraints: the map
\* the builder's setter feeds.
SeenThrough(h) == constraints

\* Keys whose entry differs (in presence or value) between two maps.
Changed(c, d) ==
    {k \in DOMAIN c \cup DOMAIN d :
        ~(k \in DOMAIN c /\ k \in DOMAIN d /\ c[k] = d[k])}

\* ---------------------------------------------------------------- C1
\* C1: with Rule {min: lo, max: hi} and a constraint map that starts empty,
\* min(v) with v < lo throws; min(a).max(b) with lo <= a and b <= hi succeeds
\* and leaves exactly {min: a, max: b}; a value equal to the rule bound is
\* accepted; with no rule fixed no min/max call throws.
C1_RuleBoundsOnOwnKey ==
    /\ (last.op = "min" /\ "min" \in DOMAIN rules /\ last.a < rules["min"])
          => (last.thrown /\ last.step = "min")
    /\ (last.op = "min" /\ "min" \in DOMAIN rules /\ last.a = rules["min"])
          => ~last.thrown
    /\ (last.op = "max" /\ "max" \in DOMAIN rules /\ last.a = rules["max"])
          => ~last.thrown
    /\ (last.op \in {"min", "max"} /\ DOMAIN rules = {}) => ~last.thrown
    /\ (/\ last.op = "max" /\ prev.called /\ prev.ok
        /\ DOMAIN last.pre = {"min"} /\ DOMAIN rules = {"min", "max"}
        /\ rules["min"] <= last.pre["min"] /\ last.a <= rules["max"])
          => (/\ ~last.thrown
              /\ constraints = [min |-> last.pre["min"], max |-> last.a])
    /\ \A a \in Val, b \in Val :
          (/\ DOMAIN rules = {"min", "max"}
           /\ rules["min"] <= a /\ b <= rules["max"])
          => LET r == max(min(Frame(RangeId, rules, setter, EmptyMap), a), b)
             IN ~r.thrown /\ r.constraints = [min |-> a, max |-> b]

\* min(1).max(2) succeeded under Rule {min: 1, max: 2}, giving {min: 1, max: 2}.
C1_Witness ==
    /\ rules = [min |-> 1, max |-> 2]
    /\ prev.called /\ prev.ok
    /\ last.op = "max" /\ last.a = 2 /\ ~last.thrown
    /\ last.pre = [min |-> 1]
    /\ constraints = [min |-> 1, max |-> 2]

\* ---------------------------------------------------------------- C2
\* C2: min(v) and max(v) throw whenever v violates ANY fixed Rule bound
\* (min(v) with v > Rule max, max(v) with v < Rule min), so every stored
\* bound lies within [Rule min, Rule max].
C2_AnyRuleBoundChecked ==
    /\ (last.op = "min" /\ "max" \in DOMAIN rules /\ last.a > rules["max"])
          => last.thrown
    /\ (last.op = "max" /\ "min" \in DOMAIN rules /\ last.a < rules["min"])
          => last.thrown
    /\ \A k \in DOMAIN constraints \cap {"min", "max"} :
          /\ "min" \in DOMAIN rules => constraints[k] >= rules["min"]
          /\ "max" \in DOMAIN rules => constraints[k] <= rules["max"]

\* ---------------------------------------------------------------- C3
\* C3: between(a, b) with a > b throws, at the max step, under every Rule
\* configuration, and no between call leaves min > max in the map.
C3_BetweenRejectsInverted ==
    /\ (last.op = "between" /\ last.a > last.b)
          => (last.thrown /\ last.step = "max")
    /\ (last.op = "between" /\ {"min", "max"} \subseteq DOMAIN constraints)
          => constraints["min"] <= constraints["max"]

\* ---------------------------------------------------------------- C4
\* C4: between(a, b) ends as min(a) followed, only if min(a) returned, by
\* max(b): same outcome, same failing step and cited bound, same map.
C4_BetweenIsMinThenMax ==
    last.op = "between" =>
        LET s1 == min(LastFrame, last.a)
            seq == IF s1.thrown THEN s1 ELSE max(s1, last.b)
        IN /\ last.thrown = seq.thrown
           /\ last.step = seq.step
           /\ last.bound = seq.bound
           /\ last.writes = seq.writes
           /\ constraints = seq.constraints

\* between(1, 2) under Rule {min: 2, max: 1}: the min step throws citing 2 and
\* the max step, which would have thrown too, is never run.
C4_Witness ==
    /\ rules = [min |-> 2, max |-> 1]
    /\ last.op = "between" /\ last.a = 1 /\ last.b = 2
    /\ last.thrown /\ last.step = "min" /\ last.bound = 2
    /\ constraints = last.pre

\* ---------------------------------------------------------------- C5
\* C5: a call that throws leaves the constraint map as it was before the
\* call and has not invoked the setter.
C5_FailureLeavesNoPartialResult ==
    last.thrown => (constraints = last.pre /\ last.writes = <<>>)

OwnKeys(op) ==
    IF op = "min" THEN {"min"}
    ELSE IF op = "max" THEN {"max"}
    ELSE IF op = "between" THEN {"min", "max"}
    ELSE IF op \in {"even", "odd"} THEN {"even"}
    ELSE {}

\* C7: a successful min/max/even/odd invokes the setter exactly once, on its
\* own key (between: min then max); no call, returning or throwing, changes
\* any other entry, the rules or the setter; a returning call returns the
\* builder it was called on.
C7_FrameState ==
    /\ Changed(last.pre, constraints) \subseteq OwnKeys(last.op)
    /\ {last.writes[i] : i \in 1 .. Len(last.writes)} \subseteq OwnKeys(last.op)
    /\ (last.op \in {"min", "max", "even", "odd"} /\ ~last.thrown)
          => (/\ Len(last.writes) = 1
              /\ {last.writes[1]} = OwnKeys(last.op)
              /\ DOMAIN constraints = DOMAIN last.pre \cup OwnKeys(last.op))
    /\ (last.op = "between" /\ ~last.thrown) => last.writes = <<"min", "max">>
    /\ (last.op # "none" /\ ~last.thrown) => last.ret = last.recv
    /\ setter = SharedMap

C7_Frame == []C7_FrameState /\ [][rules' = rules /\ setter' = setter]_vars

\* max(1) returned on a map holding min and even: both kept, only max added.
C7_Witness ==
    /\ last.op = "max" /\ last.a = 1 /\ ~last.thrown /\ last.ret = RangeId
    /\ last.pre = [min |-> 2, even |-> FALSE]
    /\ constraints = [min |-> 2, even |-> FALSE, max |-> 1]

\* ---------------------------------------------------------------- C8
\* C8: after even()/odd() calls the constraint even is TRUE exactly when the
\* latest of them was even(); a repeated call changes nothing more; neither
\* call throws.
C8_EvenOddLastWins ==
    /\ last.op \in {"even", "odd"} => ~last.thrown
    /\ last.op = "even" => ("even" \in DOMAIN constraints /\ constraints["even"])
    /\ last.op = "odd" => ("even" \in DOMAIN constraints /\ ~constraints["even"])
    /\ "even" \in DOMAIN lastArg
          => ("even" \in DOMAIN constraints
              /\ constraints["even"] = lastArg["even"])
    /\ LET f == Frame(EvenOddId, EmptyMap, setter, constraints)
       IN /\ even(even(f)).constraints = even(f).constraints
          /\ odd(odd(f)).constraints = odd(f).constraints
          /\ odd(even(f)).constraints = odd(f).constraints
          /\ even(odd(f)).constraints = even(f).constraints
          /\ ~even(f).thrown /\ ~odd(f).thrown

\* even() called on a map where odd() had set even = FALSE.
C8_Witness ==
    /\ last.op = "even" /\ ~last.thrown
    /\ "even" \in DOMAIN last.pre /\ last.pre["even"] = FALSE
    /\ constraints["even"] = TRUE

\* ---------------------------------------------------------------- C9
\* C9: from an empty map, the stored min is never below a fixed Rule min, the
\* stored max never above a fixed Rule max, and each stored bound is the
\* argument of the latest call that set it.
C9_StoredBoundsRespectOwnRule ==
    /\ ("min" \in DOMAIN constraints /\ "min" \in DOMAIN rules)
          => constraints["min"] >= rules["min"]
    /\ ("max" \in DOMAIN constraints /\ "max" \in DOMAIN rules)
          => constraints["max"] <= rules["max"]
    /\ DOMAIN constraints = DOMAIN lastArg
    /\ \A k \in DOMAIN constraints \cap {"min", "max"} :
          constraints[k] = lastArg[k]

\* min(1) returned after min = 2 was stored: the looser, later value stands.
C9_Witness ==
    /\ last.op = "min" /\ last.a = 1 /\ ~last.thrown
    /\ "min" \in DOMAIN last.pre /\ last.pre["min"] = 2
    /\ constraints["min"] = 1
    /\ "min" \in DOMAIN rules /\ rules["min"] = 1

\* --------------------------------------------------------------- C10
\* C10: min and max commute where both return, and whether one of them throws
\* does not depend on the accumulated constraints, in particular not on an
\* earlier call of the other.
C10_MinMaxCommute ==
    \A a \in Val, b \in Val :
        LET ma == min(NowFrame, a)
            mb == max(NowFrame, b)
            fresh == Frame(RangeId, rules, setter, EmptyMap)
        IN /\ ma.thrown = min(fresh, a).thrown
           /\ mb.thrown = max(fresh, b).thrown
           /\ ~mb.thrown => min(mb, a).thrown = ma.thrown
           /\ ~ma.thrown => max(ma, b).thrown = mb.thrown
           /\ (~ma.thrown /\ ~mb.thrown)
                 => max(ma, b).constraints = min(mb, a).constraints

\* min(2) returned on a map whose max is 1, after an earlier call returned.
C10_Witness ==
    /\ last.op = "min" /\ last.a = 2 /\ ~last.thrown
    /\ prev.called /\ prev.ok
    /\ "max" \in DOMAIN last.pre /\ last.pre["max"] = 1
    /\ constraints["min"] = 2 /\ constraints["max"] = 1

=============================================================================
